---- MODULE Spec2Model ----
(***************************************************************************)
(* The viewport layout and page-rendering coordination of the PDF viewer.  *)
(*                                                                         *)
(* The repository holds two viewer components that are never mounted       *)
(* together:                                                               *)
(*   - components/PDFViewer/PDFViewer.tsx (src/unnamed/part_004), the      *)
(*     exported component, with its child PDFDocument.tsx (second half of  *)
(*     src/unnamed/part_001);                                              *)
(*   - components/PDFViewer.tsx (first half of src/unnamed/part_001), the  *)
(*     standalone viewer that owns the scroll tracker.                     *)
(* Both keep the React state pdfDoc, isLoading, scale, currentPage,        *)
(* scrollMode and pageDimensions; the variables of these names hold the    *)
(* state of whichever component a specification runs:                      *)
(*   Spec          the exported PDFViewer (loadPdf, handlePageChange, ...) *)
(*   SpecDocument  the exported PDFViewer with PDFDocument's raster jobs   *)
(*   SpecLegacy    the standalone PDFViewer (scrollToPage, handleScroll..) *)
(*   SpecTracker   the pure mappings pageAt / offsetFor on drawn inputs    *)
(*   SpecZoom      the exported PDFViewer's zoom under a configured range  *)
(*   SpecThumbnails  the ThumbnailsPanel's lazy thumbnail loads            *)
(*                                                                         *)
(* Units: a scale is a percentage (100 = 1.0); a length is in hundredths   *)
(* of a pixel, so that height * scale is exact; the test                   *)
(* scrollTop + clientHeight / 3 < x is evaluated as                        *)
(* 3 * scrollTop + clientHeight < 3 * x, which is the same test on the     *)
(* rationals.  (The code computes in IEEE doubles; rounding is not         *)
(* modelled.)                                                              *)
(***************************************************************************)
EXTENDS Integers, Sequences, FiniteSets, TLC

VARIABLES
  \* ---- React state shared by name between the two viewers
  pdfDoc,          \* 0 = null, else the document handle (a member of Docs)
  isLoading,
  scale,           \* percent
  currentPage,
  scrollMode,      \* "vertical" | "horizontal" | "horizontal-single"
  pageDimensions,  \* sequence of [width, height] in px
  loads,           \* the load tasks in flight (async functions suspended at an await)
  settled,         \* the load tasks that have ended, with the callbacks they made
  nLoads,          \* number of load attempts started so far
  \* ---- props and environment
  source,          \* the pdfUrl / file prop: 0 = neither, else the document it names
  isMobile,        \* useMediaQuery(max-width: mobileBreakpoint)
  config,          \* the config prop's defaultZoom / minZoom / maxZoom (exported PDFViewer)
  lastPageCall,    \* the argument of the last onPageChange call (0: none so far)
  toggledFrom,     \* history: the mode the last toggle left ("none": none since the viewport changed)
  \* ---- PDFDocument only
  jobs,            \* renderPage calls in flight
  canvas,          \* per page: the scale the canvas was sized for and the scale of its pixels
  nJobs,           \* number of renderPage calls started so far
  failedPages,     \* pages whose renderPage logged an error and was not called again since
  \* ---- the standalone PDFViewer only
  pagesToRender,
  isScrolling,
  releaseTimers,   \* pending setTimeout(() => setIsScrolling(false), 800)
  realignTimers,   \* pending setTimeout(() => scrollToPage(currentPage), 100), with their closures
  relayoutScrolls, \* scroll events the container owes after a re-layout
  switchedFrom,    \* currentPage before the mode switch in progress (0: none, or a load,
                   \* a navigation or a scroll of the user's overlaps it)
  keyClosure,      \* the scrollMode / pageDimensions held by the bound keydown listener
  scrollCmd,       \* the last container.scrollTo call: its axis and target, or NoScroll
  handler,         \* the last of scrollToPage / handleScroll to have run
  \* ---- ThumbnailsPanel only
  thumbnails,         \* the thumbnails state: the entries rendered so far
  loadingThumbnails,  \* the loadingThumbnails state: a set of page numbers
  visiblePages,       \* the visiblePages state, set by the intersection observer
  thumbLoads,         \* loadThumbnail calls in flight: their number, per page
  nThumbFailures,     \* number of thumbnail loads that have failed so far
  \* ---- the pure mappings on drawn inputs
  probe

sharedVars == <<pdfDoc, isLoading, scale, currentPage, scrollMode, pageDimensions,
                loads, settled, nLoads>>
viewerVars == <<source, isMobile, config, lastPageCall, toggledFrom>>
documentVars == <<jobs, canvas, nJobs, failedPages>>
legacyVars == <<pagesToRender, isScrolling, releaseTimers, realignTimers,
                relayoutScrolls, switchedFrom, keyClosure, scrollCmd, handler>>
thumbVars == <<thumbnails, loadingThumbnails, visiblePages, thumbLoads, nThumbFailures>>
vars == <<sharedVars, viewerVars, documentVars, legacyVars, thumbVars, probe>>

-----------------------------------------------------------------------------
(* Bounds of the model.                                                    *)
NumDocs == 2        \* documents the engine can open
MaxLoads == 3       \* load attempts in one run
MaxEps == 2         \* the "small eps" of the round trip, in px
MaxJobs == 5        \* renderPage calls in one run
MaxNavs == 2        \* pending lock-release timers
MaxToggles == 2     \* pending re-align timers
MaxLegacyLoads == 2 \* load attempts in one run of the standalone viewer
MaxThumbFailures == 2 \* thumbnail loads that fail in one run of the panel
NumFiles == 3       \* documents the standalone viewer's file picker offers

(* Program constants.                                                      *)
PAGE_GAP == 40

Docs == 1 .. NumDocs
Files == 1 .. NumFiles
Modes == <<"vertical", "horizontal", "horizontal-single">>
ContinuousModes == {"vertical", "horizontal"}

(* The document engine (pdf.js), an external collaborator.  Document d has *)
(* d + 1 pages; its pages alternate portrait and landscape so that the two *)
(* axes differ.                                                            *)
NumPages(d) == d + 1

PageViewport(d, i) ==
  IF (d + i) % 2 = 0 THEN [width |-> 600, height |-> 800]
                     ELSE [width |-> 800, height |-> 600]

RECURSIVE GeometryUpTo(_, _)
GeometryUpTo(d, n) ==
  IF n = 0 THEN <<>> ELSE Append(GeometryUpTo(d, n - 1), PageViewport(d, n))

Geometry(d) == GeometryUpTo(d, NumPages(d))

-----------------------------------------------------------------------------
(* The scroll-position tracker's two mappings (standalone PDFViewer).      *)

\* The extent of a page along the primary axis of a continuous mode.
PageExtent(dim, mode) == IF mode = "vertical" THEN dim.height ELSE dim.width

\* scrollToPage's targetPosition: the loop
\*   for (i = 0; i < pageNumber - 1; i++) targetPosition += dim[i] * scale + PAGE_GAP
\* (scrollToPage below covers the case pageNumber - 1 > Len(dims), in which
\* the loop reads past the array.)
RECURSIVE OffsetFor(_, _, _, _)
OffsetFor(pageNumber, dims, sc, mode) ==
  IF pageNumber <= 1 THEN 0
  ELSE OffsetFor(pageNumber - 1, dims, sc, mode)
         + PageExtent(dims[pageNumber - 1], mode) * sc + PAGE_GAP * 100

\* handleScroll's loop from index i with the accumulated extent acc;
\* anchor3 = 3 * (scrollTop + clientHeight / 3).  foundPage starts at 1 and
\* keeps that value when the loop ends without a break.
RECURSIVE PageAtFrom(_, _, _, _, _, _)
PageAtFrom(i, acc, anchor3, dims, sc, mode) ==
  IF i > Len(dims) THEN 1
  ELSE LET pageExtent == PageExtent(dims[i], mode) * sc IN
       IF anchor3 < 3 * (acc + pageExtent) THEN i
       ELSE PageAtFrom(i + 1, acc + pageExtent + PAGE_GAP * 100, anchor3, dims, sc, mode)

\* A slip that anchors at the far edge of the viewport instead of its first third.
PageAtWholeViewport(scrollOffset, viewportExtent, dims, sc, mode) ==
  PageAtFrom(1, 0, 3 * scrollOffset + 3 * viewportExtent, dims, sc, mode)

PageAt(scrollOffset, viewportExtent, dims, sc, mode) ==
  PageAtFrom(1, 0, 3 * scrollOffset + viewportExtent, dims, sc, mode)

\* The end of the last page's box.
ContentEnd(dims, sc, mode) ==
  OffsetFor(Len(dims), dims, sc, mode) + PageExtent(dims[Len(dims)], mode) * sc

-----------------------------------------------------------------------------
(* PDFDocument's render effect.                                            *)

\* The render effect's page list: the current page and its neighbours in
\* single-page mode, every page otherwise.
EffectPages(mode, cur, n) ==
  IF mode = "horizontal-single"
    THEN {cur} \cup (IF cur > 1 THEN {cur - 1} ELSE {}) \cup (IF cur < n THEN {cur + 1} ELSE {})
    ELSE 1 .. n

-----------------------------------------------------------------------------
(* The exported PDFViewer's zoom configuration:                            *)
(*   const { defaultZoom = 1, minZoom = 0.25, maxZoom = 3, ... } = config  *)
DefaultConfig == [defaultZoom |-> 100, minZoom |-> 25, maxZoom |-> 300]

\* The configurations an embedding application passes: none, or a range
\* for close reading with its default inside it.
Configs == {DefaultConfig, [defaultZoom |-> 200, minZoom |-> 150, maxZoom |-> 400]}

(* Values the variables of a component keep while another one runs.        *)
SharedIdle ==
  /\ pdfDoc = 0 /\ isLoading = FALSE /\ scale = 100 /\ currentPage = 1
  /\ scrollMode = "vertical" /\ pageDimensions = <<>>
  /\ loads = {} /\ settled = {} /\ nLoads = 0

ViewerIdle ==
  /\ source = 0 /\ isMobile = FALSE /\ config = DefaultConfig
  /\ lastPageCall = 0 /\ toggledFrom = "none"

DocumentIdle == jobs = {} /\ canvas = <<>> /\ nJobs = 0 /\ failedPages = {}

ThumbnailsIdle ==
  /\ thumbnails = <<>> /\ loadingThumbnails = {} /\ visiblePages = {}
  /\ thumbLoads = <<>> /\ nThumbFailures = 0

NoScroll == [axis |-> "none", target |-> 0]

\* The keydown effect has run once, for the first render.
LegacyIdle ==
  /\ pagesToRender = <<>> /\ isScrolling = FALSE
  /\ releaseTimers = 0 /\ realignTimers = <<>>
  /\ relayoutScrolls = 0 /\ switchedFrom = 0
  /\ keyClosure = [mode |-> scrollMode, dims |-> pageDimensions]
  /\ scrollCmd = NoScroll /\ handler = "none"

NoProbe == [stage |-> "none"]

-----------------------------------------------------------------------------
(* SpecTracker: pageAt and offsetFor applied to drawn inputs.              *)

TrackerScales == {50, 100, 150}
ViewportExtents == {30000, 120000}     \* clientHeight / clientWidth: 300 px, 1200 px

\* Offsets a scroll event may report: around every page's top edge and
\* around and past the end of the content.
ProbeOffsets(dims, sc, mode) ==
  {OffsetFor(p, dims, sc, mode) + e * 100 : p \in 1 .. Len(dims), e \in 0 .. MaxEps}
    \cup {ContentEnd(dims, sc, mode) + e * 100 : e \in 0 .. MaxEps}

InitTracker ==
  /\ ThumbnailsIdle
  /\ probe \in [stage : {"input"},
                dims : {Geometry(d) : d \in Docs},
                scale : TrackerScales,
                mode : ContinuousModes,
                extent : ViewportExtents,
                page : 1 .. NumPages(NumDocs),
                eps : 0 .. MaxEps,
                offset : {0},
                found : {0},
                total : {0},
                requested : {{}},
                policy : {"none"},
                viewport : {[width |-> 0, height |-> 0]},
                result : {[num |-> 1, den |-> 1]}]
  /\ probe.page <= Len(probe.dims)
  /\ SharedIdle /\ ViewerIdle /\ DocumentIdle /\ LegacyIdle

\* scrollToPage(page) scrolls to offsetFor(page); the scroll event that
\* follows, eps further, is mapped back by handleScroll.
NavigateThenObserve ==
  /\ probe.stage = "input"
  /\ LET target == OffsetFor(probe.page, probe.dims, probe.scale, probe.mode) + probe.eps * 100
     IN probe' = [probe EXCEPT !.stage = "roundtrip",
                               !.offset = target,
                               !.found = PageAt(target, probe.extent, probe.dims,
                                                probe.scale, probe.mode)]
  /\ UNCHANGED <<sharedVars, viewerVars, documentVars, legacyVars, thumbVars>>

\* handleScroll on a scroll event at an arbitrary offset.
ObserveScroll ==
  /\ probe.stage = "input"
  /\ \E off \in ProbeOffsets(probe.dims, probe.scale, probe.mode) :
       probe' = [probe EXCEPT !.stage = "observed",
                              !.offset = off,
                              !.found = PageAt(off, probe.extent, probe.dims,
                                               probe.scale, probe.mode)]
  /\ UNCHANGED <<sharedVars, viewerVars, documentVars, legacyVars, thumbVars>>

\* The scaled extent of the probed page's box along the scroll axis.
ProbedBox == PageExtent(probe.dims[probe.page], probe.mode) * probe.scale

\* C5 (as stated): for every page P, viewport extent > 0 and small eps >= 0,
\* pageAt(offsetFor(P) + eps) = P.
C5_RoundTripAnyExtent ==
  probe.stage = "roundtrip" => probe.found = probe.page

\* C5 (amended): for every page P, viewport extent and eps >= 0 such that
\* extent/3 + eps is less than the scaled extent of P's box along the scroll
\* axis (the anchor point still lies on P), pageAt(offsetFor(P) + eps) = P.
C5_RoundTripWhenAnchorOnPage ==
  (probe.stage = "roundtrip" /\ probe.extent + 3 * probe.eps * 100 < 3 * ProbedBox)
    => probe.found = probe.page

\* C5 witness: a round trip of a later page with eps > 0 whose anchor lies on the page.
C5_Witness ==
  /\ probe.stage = "roundtrip" /\ probe.page >= 2 /\ probe.eps > 0
  /\ probe.extent + 3 * probe.eps * 100 < 3 * ProbedBox
  /\ probe.found = probe.page

\* C6: when the anchor point scrollOffset + viewportExtent/3 lies beyond the
\* end of the last page's box, pageAt returns the last page index, in both
\* continuous modes.
C6_FallbackIsLastPage ==
  (probe.stage = "observed"
     /\ 3 * probe.offset + probe.extent > 3 * ContentEnd(probe.dims, probe.scale, probe.mode))
    => probe.found = Len(probe.dims)

-----------------------------------------------------------------------------
(* Load tasks.  A task is one run of an async load function, suspended at  *)
(* an await:                                                               *)
(*   phase "read"      reader.readAsArrayBuffer (standalone file picker)   *)
(*   phase "open"      pdfjsLib.getDocument(...).promise (and, for the     *)
(*                     file prop, file.arrayBuffer() before it)            *)
(*   phase "geometry"  getPage(page) of the geometry loop                  *)
(* doc is the document the source opens to; captured is the pdfDoc the     *)
(* closure of calculateDimensions holds (standalone viewer only).          *)

NewTask(kind, d, cap, ph) ==
  [id |-> nLoads + 1, kind |-> kind, doc |-> d, captured |-> cap,
   phase |-> ph, page |-> 0, dims |-> <<>>]

Ended(t, outcome, errs, oks) ==
  [id |-> t.id, doc |-> t.doc, outcome |-> outcome, onError |-> errs, onLoad |-> oks]

-----------------------------------------------------------------------------
(* Spec: the exported PDFViewer (components/PDFViewer/PDFViewer.tsx).      *)
(* Its zoom handler is part of SpecDocument, where the scale is read.      *)

defaultZoom == config.defaultZoom
minZoom == config.minZoom
maxZoom == config.maxZoom

\* The variables of the other components, which no action of this one writes.
notViewer == <<legacyVars, probe, thumbVars>>

InitViewerState ==
  /\ pdfDoc = 0
  /\ isLoading = FALSE
  /\ scale = defaultZoom
  /\ currentPage = 1
  /\ isMobile \in BOOLEAN
  /\ scrollMode \in (IF isMobile THEN {"vertical"} ELSE {Modes[i] : i \in 1 .. 3})
  /\ pageDimensions = <<>>
  /\ loads = {} /\ settled = {} /\ nLoads = 0
  /\ source = 0
  /\ lastPageCall = 0
  /\ toggledFrom = "none"

Init ==
  /\ config = DefaultConfig /\ InitViewerState /\ DocumentIdle /\ LegacyIdle
  /\ probe = NoProbe /\ ThumbnailsIdle

\* The load effect's loadPdf() up to its first await: runs whenever the
\* effect's dependencies [pdfUrl, file, onLoad, onError] change.
LoadPdf ==
  IF source' = 0
    THEN UNCHANGED <<isLoading, loads, nLoads>>
    ELSE /\ isLoading' = TRUE
         /\ loads' = loads \cup {NewTask("prop", source', 0, "open")}
         /\ nLoads' = nLoads + 1

\* The embedding application passes another pdfUrl / file (or none).
SetSource(s) ==
  /\ s # source
  /\ nLoads < MaxLoads
  /\ source' = s
  /\ LoadPdf
  /\ UNCHANGED <<pdfDoc, scale, currentPage, scrollMode, pageDimensions, settled, isMobile,
                 config, lastPageCall, toggledFrom,
                 documentVars, notViewer>>

\* The embedding application re-renders with new onLoad / onError function
\* identities (inline arrows): the effect runs again for the same source.
CallbackIdentityChange ==
  /\ source # 0
  /\ nLoads < MaxLoads
  /\ source' = source
  /\ LoadPdf
  /\ UNCHANGED <<pdfDoc, scale, currentPage, scrollMode, pageDimensions, settled, isMobile,
                 config, lastPageCall, toggledFrom,
                 documentVars, notViewer>>

\* getDocument resolves: setPdfDoc(loadedPdf), setFileName, then the
\* geometry loop suspends at getPage(1).
OpenResolved(t) ==
  /\ t.kind = "prop" /\ t.phase = "open"
  /\ pdfDoc' = t.doc
  /\ loads' = (loads \ {t}) \cup {[t EXCEPT !.phase = "geometry", !.page = 1]}
  /\ UNCHANGED <<isLoading, scale, currentPage, scrollMode, pageDimensions,
                 settled, nLoads, source, isMobile, config, lastPageCall, toggledFrom,
                 documentVars, notViewer>>

\* getDocument (or file.arrayBuffer) rejects: catch calls onError, finally
\* clears isLoading.
OpenRejected(t) ==
  /\ t.kind = "prop" /\ t.phase = "open"
  /\ loads' = loads \ {t}
  /\ settled' = settled \cup {Ended(t, "openError", 1, 0)}
  /\ isLoading' = FALSE
  /\ UNCHANGED <<pdfDoc, scale, currentPage, scrollMode, pageDimensions,
                 nLoads, source, isMobile, config, lastPageCall, toggledFrom, documentVars, notViewer>>

\* getPage(t.page) resolves: push its viewport; after the last page
\* setPageDimensions(dimensions), onLoad(loadedPdf), finally.
GetPageResolved(t) ==
  /\ t.kind = "prop" /\ t.phase = "geometry"
  /\ LET dimensions == Append(t.dims, PageViewport(t.doc, t.page)) IN
       IF t.page < NumPages(t.doc)
         THEN /\ loads' = (loads \ {t})
                            \cup {[t EXCEPT !.page = t.page + 1, !.dims = dimensions]}
              /\ UNCHANGED <<pageDimensions, settled, isLoading>>
         ELSE /\ loads' = loads \ {t}
              /\ pageDimensions' = dimensions
              /\ settled' = settled \cup {Ended(t, "loaded", 0, 1)}
              /\ isLoading' = FALSE
  /\ UNCHANGED <<pdfDoc, scale, currentPage, scrollMode, nLoads, source, isMobile, config,
                 lastPageCall, toggledFrom,
                 documentVars, notViewer>>

\* getPage(t.page) rejects: catch calls onError, finally clears isLoading.
GetPageRejected(t) ==
  /\ t.kind = "prop" /\ t.phase = "geometry"
  /\ loads' = loads \ {t}
  /\ settled' = settled \cup {Ended(t, "readError", 1, 0)}
  /\ isLoading' = FALSE
  /\ UNCHANGED <<pdfDoc, scale, currentPage, scrollMode, pageDimensions,
                 nLoads, source, isMobile, config, lastPageCall, toggledFrom, documentVars, notViewer>>

\* totalPages={pdfDoc?.numPages || 0}
totalPages == IF pdfDoc = 0 THEN 0 ELSE NumPages(pdfDoc)

\* handlePageChange: setCurrentPage(page); onPageChange?.(page).
handlePageChange(page) ==
  /\ currentPage' = page
  /\ lastPageCall' = page
  /\ UNCHANGED <<pdfDoc, isLoading, scale, scrollMode, pageDimensions,
                 loads, settled, nLoads, source, isMobile, config, toggledFrom, notViewer>>

\* Who may call handlePageChange(page):
\*  - the page input of PageControls accepts 1 <= page <= totalPages, and a
\*    thumbnail or an outline entry names a page of pdfDoc;
\*  - onPrevPage = () => handlePageChange(currentPage - 1): its buttons are
\*    disabled while currentPage <= 1 and shown while totalPages > 0; the
\*    ArrowLeft / PageUp key and PDFDocument's button test currentPage > 1;
\*  - onNextPage = () => handlePageChange(currentPage + 1): its buttons are
\*    disabled while currentPage >= totalPages; the ArrowRight / PageDown key
\*    and PDFDocument's button test currentPage < pdfDoc.numPages.
CanRequestPage(page) == page >= 1 /\ page <= totalPages
CanPrevPage == totalPages > 0 /\ currentPage > 1
CanNextPage == totalPages > 0 /\ currentPage < totalPages

RequestPage(page) ==
  CanRequestPage(page) /\ handlePageChange(page) /\ UNCHANGED documentVars

PrevPage ==
  CanPrevPage /\ handlePageChange(currentPage - 1) /\ UNCHANGED documentVars

NextPage ==
  CanNextPage /\ handlePageChange(currentPage + 1) /\ UNCHANGED documentVars

\* toggleScrollMode's modes[(modes.indexOf(scrollMode) + 1) % modes.length],
\* with Modes indexed from 1.
nextModeSkippingSingle(mode) == IF mode = "vertical" THEN "horizontal" ELSE "vertical"

nextMode(mode) ==
  LET currentIndex == CHOOSE i \in 1 .. Len(Modes) : Modes[i] = mode
  IN  Modes[(currentIndex % Len(Modes)) + 1]

\* toggleScrollMode's setScrollMode(...).  The toolbar shows the toggle only
\* off mobile, so the auto-adjust effect that follows has nothing to do.
setNextScrollMode ==
  /\ ~isMobile
  /\ scrollMode' = nextMode(scrollMode)
  /\ toggledFrom' = scrollMode
  /\ UNCHANGED <<pdfDoc, isLoading, scale, currentPage, pageDimensions,
                 loads, settled, nLoads, source, isMobile, config, lastPageCall, notViewer>>

toggleScrollMode == setNextScrollMode /\ UNCHANGED documentVars

\* The viewport crosses mobileBreakpoint; the auto-adjust effect forces
\* vertical mode on mobile.
ViewportChange ==
  /\ isMobile' = ~isMobile
  /\ scrollMode' = IF isMobile' /\ scrollMode # "vertical" THEN "vertical" ELSE scrollMode
  /\ toggledFrom' = "none"
  /\ UNCHANGED <<pdfDoc, isLoading, scale, currentPage, pageDimensions,
                 loads, settled, nLoads, source, config, lastPageCall, documentVars, notViewer>>

Next ==
  \/ \E s \in Files \cup {0} : SetSource(s)
  \/ CallbackIdentityChange
  \/ \E t \in loads : OpenResolved(t)
  \/ \E t \in loads : OpenRejected(t)
  \/ \E t \in loads : GetPageResolved(t)
  \/ \E t \in loads : GetPageRejected(t)
  \/ \E page \in 1 .. NumPages(NumFiles) : RequestPage(page)
  \/ PrevPage
  \/ NextPage
  \/ toggleScrollMode
  \/ ViewportChange

Spec == Init /\ [][Next]_vars

\* A load task ended in this step as a successful load.
LoadCompleted == \E l \in settled' \ settled : l.outcome = "loaded"

\* C4: whenever a document is loaded, 1 <= currentPage <= pageCount.
C4_CurrentPageInRange ==
  pdfDoc # 0 => (1 <= currentPage /\ currentPage <= NumPages(pdfDoc))

\* C7: a load, by any path and also over a loaded document, resets the
\* viewer: when it completes currentPage = 1 and the geometry is that of
\* the document just loaded.
C7_LoadResetsState ==
  [][LoadCompleted => (currentPage' = 1 /\ pageDimensions' = Geometry(pdfDoc'))]_vars

\* C9: a load whose geometry read failed is aborted as a whole: when every
\* load so far ended that way, no document handle is installed and no
\* geometry is kept.
C9_GeometryFailureLeavesNoDocument ==
  (loads = {} /\ settled # {} /\ \A l \in settled : l.outcome = "readError")
    => (pdfDoc = 0 /\ pageDimensions = <<>>)

\* C10: every failed load calls onError exactly once, and the document of a
\* failed load is never the loaded document (pdfDoc is only ever a document
\* whose load succeeded or is still reading geometry).
C10_FailureSignalledAndNotInstalled ==
  /\ \A l \in settled : l.outcome # "loaded" => l.onError = 1
  /\ pdfDoc # 0 =>
       \/ \E l \in settled : l.doc = pdfDoc /\ l.outcome = "loaded"
       \/ \E t \in loads : t.doc = pdfDoc /\ t.phase = "geometry"

\* C24: every change of currentPage comes with an onPageChange call whose
\* argument is the new currentPage, and that argument is a page of the
\* loaded document.
C24_PageChangeCallback ==
  [][currentPage' # currentPage
       => /\ lastPageCall' = currentPage'
          /\ pdfDoc # 0
          /\ lastPageCall' \in 1 .. NumPages(pdfDoc)]_vars

\* C26: when loads overlap and all of them have settled successfully, the
\* document handle and the geometry table are those of the most recently
\* requested source, whatever the order of completion.
C26_LatestLoadWins ==
  (source # 0 /\ loads = {} /\ Cardinality(settled) >= 2
     /\ \A l \in settled : l.outcome = "loaded")
    => (pdfDoc = source /\ pageDimensions = Geometry(source))

\* C27: while the source stays the same no further load is started (the
\* document of a fixed source is opened once, onLoad is called once),
\* also when the embedding component renders again with new onLoad /
\* onError function identities.
C27_FixedSourceLoadsOnce ==
  [][source' = source => nLoads' = nLoads]_vars

-----------------------------------------------------------------------------
(* SpecDocument: the exported PDFViewer with a loaded document and its     *)
(* child PDFDocument (components/PDFViewer/PDFDocument.tsx).               *)
(*                                                                         *)
(* canvas[p] describes canvasRefs.current[p - 1]: whether an element was   *)
(* ever stored there (exists), whether that element is in the DOM          *)
(* (mounted), the scale whose viewport its width/height were set from      *)
(* (size, 0 = never sized) and the scale of the raster drawn on it         *)
(* (pixels, 0 = blank).  A job is one renderPage call; it keeps the        *)
(* element it read before its first await, so it is no longer live once    *)
(* React has stored another element for its page.  A job is stale once     *)
(* scale or scrollMode has changed since it was requested (the code keeps  *)
(* no such mark: the field records it for the properties).                 *)

BlankCanvas(isMounted) == [exists |-> isMounted, mounted |-> isMounted, size |-> 0, pixels |-> 0]

\* The pages whose canvas the JSX renders.
MountedPages(mode, cur, n) == IF mode = "horizontal-single" THEN {cur} ELSE 1 .. n

\* The pages whose canvas element is created anew by a commit: the single
\* page's wrapper is keyed by currentPage, and the single and multi-page
\* branches are different children.
Remounted(oldMode, oldCur, newMode, newCur, n) ==
  IF newMode = "horizontal-single"
    THEN IF oldMode = "horizontal-single" /\ oldCur = newCur THEN {} ELSE {newCur}
    ELSE IF oldMode = "horizontal-single" THEN 1 .. n ELSE {}

\* renderPage(pageNum) up to its first await, for every page of the list:
\* it returns at once without a document, for a page out of range or
\* without a canvas element.
StartedJobs(pages, cv, sc, n, base) ==
  LET targets == {q \in pages : q >= 1 /\ q <= n /\ cv[q].exists} IN
    {[id |-> base + Cardinality({r \in targets : r <= q}),
      page |-> q, scale |-> sc, phase |-> "getPage", live |-> TRUE,
      stale |-> FALSE] : q \in targets}

\* What a commit of the primed viewer state does to PDFDocument: React
\* mounts and unmounts canvases, then the render effect runs (its
\* dependencies are pdfDoc, currentPage, scale, scrollMode, pageDimensions).
CommitAndRender ==
  IF <<scale', currentPage', scrollMode'>> = <<scale, currentPage, scrollMode>>
    THEN UNCHANGED documentVars
    ELSE
      LET n == NumPages(pdfDoc)
          fresh == Remounted(scrollMode, currentPage, scrollMode', currentPage', n)
          shown == MountedPages(scrollMode', currentPage', n)
          cv == [q \in 1 .. n |->
                   IF q \in fresh THEN BlankCanvas(TRUE)
                   ELSE [canvas[q] EXCEPT !.mounted = canvas[q].exists /\ q \in shown]]
          changed == scale' # scale \/ scrollMode' # scrollMode
          kept == {[j EXCEPT !.live = j.live /\ j.page \notin fresh,
                             !.stale = j.stale \/ changed] : j \in jobs}
          started == IF Len(pageDimensions) = 0 THEN {}
                     ELSE StartedJobs(EffectPages(scrollMode', currentPage', n),
                                      cv, scale', n, nJobs)
      IN /\ nJobs + Cardinality(started) <= MaxJobs
         /\ canvas' = cv
         /\ jobs' = kept \cup started
         /\ nJobs' = nJobs + Cardinality(started)
         /\ failedPages' = failedPages \ {j.page : j \in started}

InitDocument ==
  /\ config = DefaultConfig
  /\ \E d \in Docs :
       /\ pdfDoc = d /\ source = d
       /\ pageDimensions = Geometry(d)
       /\ settled = {[id |-> 1, doc |-> d, outcome |-> "loaded", onError |-> 0, onLoad |-> 1]}
       /\ scrollMode \in {Modes[i] : i \in 1 .. 3}
       /\ canvas = [q \in 1 .. NumPages(d) |->
                      BlankCanvas(q \in MountedPages(scrollMode, 1, NumPages(d)))]
       /\ jobs = StartedJobs(EffectPages(scrollMode, 1, NumPages(d)), canvas,
                             defaultZoom, NumPages(d), 0)
  /\ nJobs = Cardinality(jobs)
  /\ failedPages = {}
  /\ isLoading = FALSE /\ scale = defaultZoom /\ currentPage = 1
  /\ loads = {} /\ nLoads = 1 /\ isMobile = FALSE /\ lastPageCall = 0 /\ toggledFrom = "none"
  /\ LegacyIdle /\ probe = NoProbe /\ ThumbnailsIdle

\* handleZoom: setScale(newScale); onZoomChange?.(newScale).
ZoomTypes == {"in", "out", "fit", "width", "page"}

newScale(type) ==
  CASE type = "in" -> IF scale + 10 < maxZoom THEN scale + 10 ELSE maxZoom
    [] type = "out" -> IF scale - 10 > minZoom THEN scale - 10 ELSE minZoom
    [] OTHER -> 100

handleZoom(type) ==
  /\ scale' = newScale(type)
  /\ UNCHANGED <<pdfDoc, isLoading, currentPage, scrollMode, pageDimensions,
                 loads, settled, nLoads, source, isMobile, config, lastPageCall, toggledFrom, notViewer>>

DocZoom(type) == handleZoom(type) /\ CommitAndRender

DocRequestPage(page) == CanRequestPage(page) /\ handlePageChange(page) /\ CommitAndRender

DocPrevPage == CanPrevPage /\ handlePageChange(currentPage - 1) /\ CommitAndRender

DocNextPage == CanNextPage /\ handlePageChange(currentPage + 1) /\ CommitAndRender

DocToggleScrollMode == setNextScrollMode /\ CommitAndRender

\* pdfDoc.getPage(pageNum) resolves: canvas.width / height are set from the
\* viewport at the scale of the job's closure (which clears the canvas),
\* the background is filled and page.render starts.
JobSized(j) ==
  /\ j.phase = "getPage"
  /\ jobs' = (jobs \ {j}) \cup {[j EXCEPT !.phase = "render"]}
  /\ canvas' = IF j.live
                 THEN [canvas EXCEPT ![j.page].size = j.scale, ![j.page].pixels = 0]
                 ELSE canvas
  /\ UNCHANGED <<sharedVars, viewerVars, nJobs, failedPages, notViewer>>

\* page.render(...).promise resolves: the raster of the job's scale is on
\* the canvas.  Nothing compares the job's scale with the current one.
JobRendered(j) ==
  /\ j.phase = "render"
  /\ jobs' = jobs \ {j}
  /\ canvas' = IF j.live THEN [canvas EXCEPT ![j.page].pixels = j.scale] ELSE canvas
  /\ UNCHANGED <<sharedVars, viewerVars, nJobs, failedPages, notViewer>>

\* A renderPage whose catch, besides logging, gives up the whole pass.
JobRejectedAbortsPass(j) ==
  /\ jobs' = {k \in jobs : k.scale # j.scale}
  /\ failedPages' = failedPages \cup {j.page}
  /\ UNCHANGED <<sharedVars, viewerVars, canvas, nJobs, notViewer>>

\* getPage or render rejects: the catch logs the error.
JobRejected(j) ==
  /\ jobs' = jobs \ {j}
  /\ failedPages' = failedPages \cup {j.page}
  /\ UNCHANGED <<sharedVars, viewerVars, canvas, nJobs, notViewer>>

NextDocument ==
  \/ \E type \in ZoomTypes : DocZoom(type)
  \/ \E page \in 1 .. NumPages(NumDocs) : DocRequestPage(page)
  \/ DocPrevPage
  \/ DocNextPage
  \/ DocToggleScrollMode
  \/ \E j \in jobs : JobSized(j)
  \/ \E j \in jobs : JobRendered(j)
  \/ \E j \in jobs : JobRejected(j)

SpecDocument == InitDocument /\ [][NextDocument]_vars

\* C1: a raster result requested before the latest scale change is never
\* applied to a page's visible surface: whenever a step draws a raster on a
\* canvas that is in the DOM, it is the raster of the current scale.
C1_StaleRasterNeverApplied ==
  [][\A q \in DOMAIN canvas :
       (canvas'[q].mounted /\ canvas'[q].pixels # canvas[q].pixels /\ canvas'[q].pixels # 0)
         => canvas'[q].pixels = scale']_vars

\* C14: at most one raster job is outstanding per page: a page whose
\* rasterization is in flight is not requested again before that job
\* completes or becomes stale.
C14_OneJobPerPage ==
  \A j \in jobs : \A k \in jobs :
    (j.page = k.page /\ ~j.stale /\ ~k.stale) => j = k

\* The pages the claim of C12 names for single-page mode.
Neighbourhood(cur, n) == {cur - 1, cur, cur + 1} \cap (1 .. n)

\* C12: in single-page mode the pages for which a run of the render effect
\* requests rasterization are exactly currentPage and its neighbours
\* within 1 .. pageCount.
C12_SinglePageRasterSet ==
  [][(nJobs' > nJobs /\ scrollMode' = "horizontal-single")
       => {j.page : j \in {k \in jobs' : k.id > nJobs}}
            = Neighbourhood(currentPage', NumPages(pdfDoc'))]_vars

\* C22: the failure of one page's raster job is local.  A step in which a
\* renderPage logs an error ends that one job and no other, draws nothing
\* and leaves currentPage, scale and the layout mode alone; and a run of
\* the render effect calls renderPage again for every failed page that its
\* page list holds.
C22_RasterFailureIsLocal ==
  [][/\ (failedPages' \ failedPages # {})
          => /\ UNCHANGED <<currentPage, scale, scrollMode, canvas>>
             /\ \E j \in jobs : jobs' = jobs \ {j} /\ failedPages' = failedPages \cup {j.page}
     /\ (<<scale', currentPage', scrollMode'>> # <<scale, currentPage, scrollMode>>)
          => \A q \in failedPages :
               q \in EffectPages(scrollMode', currentPage', NumPages(pdfDoc'))
                 => \E k \in jobs' \ jobs : k.page = q /\ k.scale = scale' /\ k.live]_vars

\* C22 witness: a page's job has failed while a job of the same pass for
\* another page is still on its way, and nothing else has changed.
C22_Witness ==
  /\ failedPages # {}
  /\ \E k \in jobs : k.page \notin failedPages /\ ~k.stale /\ k.phase = "render"
  /\ scale = defaultZoom /\ currentPage = 1

-----------------------------------------------------------------------------
(* SpecLegacy: the standalone PDFViewer (components/PDFViewer.tsx): its    *)
(* two load paths, scrollToPage, handleScroll and toggleScrollMode with    *)
(* their timers.  Zoom is left at its initial value.                       *)

InitLegacy ==
  /\ pdfDoc = 0 /\ isLoading = FALSE /\ scale = 100 /\ currentPage = 1
  /\ scrollMode \in {Modes[i] : i \in 1 .. 3}
  /\ pageDimensions = <<>>
  /\ loads = {} /\ settled = {} /\ nLoads = 0
  /\ ViewerIdle /\ DocumentIdle /\ LegacyIdle /\ probe = NoProbe /\ ThumbnailsIdle

\* scrollContainerRef.current: the container is rendered when the viewer is
\* not loading and holds a document.
HasContainer == ~isLoading /\ pdfDoc # 0

PageList(n) == [i \in 1 .. n |-> i]

\* The keydown effect, with dependencies [pdfDoc, currentPage]: when one of
\* them changed in the render that follows the step, the listener is bound
\* again and holds that render's goToPrevPage / goToNextPage, hence that
\* render's scrollToPage with its scrollMode and pageDimensions.  A render
\* in which neither changed leaves the listener of the earlier render bound.
BindKeyListener ==
  keyClosure' = IF pdfDoc' # pdfDoc \/ currentPage' # currentPage
                  THEN [mode |-> scrollMode', dims |-> pageDimensions']
                  ELSE keyClosure

\* The effect on [pdfUrl] calls loadPdfFromUrl(pdfUrl): setIsLoading(true),
\* then getDocument is awaited.  The calculateDimensions it will call is
\* the one of this render, whose closure holds this render's pdfDoc.
SetPdfUrl(s) ==
  /\ s # source
  /\ nLoads < MaxLegacyLoads
  /\ source' = s
  /\ IF s = 0
       THEN UNCHANGED <<isLoading, loads, nLoads>>
       ELSE /\ isLoading' = TRUE
            /\ loads' = loads \cup {NewTask("url", s, pdfDoc, "open")}
            /\ nLoads' = nLoads + 1
  /\ switchedFrom' = 0
  /\ UNCHANGED <<pdfDoc, scale, currentPage, scrollMode, pageDimensions, settled,
                 isMobile, config, lastPageCall, toggledFrom, documentVars, pagesToRender,
                 isScrolling, releaseTimers,
                 realignTimers, relayoutScrolls, keyClosure, scrollCmd, handler, probe, thumbVars>>

\* handleFileSelected(file): setIsLoading(true), setCurrentPage(1),
\* reader.readAsArrayBuffer(file).
handleFileSelected(d) ==
  /\ nLoads < MaxLegacyLoads
  /\ isLoading' = TRUE
  /\ currentPage' = 1
  /\ loads' = loads \cup {NewTask("file", d, pdfDoc, "read")}
  /\ nLoads' = nLoads + 1
  /\ switchedFrom' = 0
  /\ UNCHANGED <<pdfDoc, scale, scrollMode, pageDimensions, settled, source, isMobile, config,
                 lastPageCall, toggledFrom,
                 documentVars, pagesToRender, isScrolling, releaseTimers, realignTimers,
                 relayoutScrolls, scrollCmd, handler, probe, thumbVars>>
  /\ BindKeyListener

\* reader.onload fires: getDocument({data}) is awaited.
ReaderLoaded(t) ==
  /\ t.kind = "file" /\ t.phase = "read"
  /\ loads' = (loads \ {t}) \cup {[t EXCEPT !.phase = "open"]}
  /\ UNCHANGED <<pdfDoc, isLoading, scale, currentPage, scrollMode, pageDimensions,
                 settled, nLoads, viewerVars, documentVars, legacyVars, probe, thumbVars>>

\* The read fails: the reader has no onerror handler, nothing else runs.
ReaderFailed(t) ==
  /\ t.kind = "file" /\ t.phase = "read"
  /\ loads' = loads \ {t}
  /\ settled' = settled \cup {Ended(t, "fileError", 0, 0)}
  /\ UNCHANGED <<pdfDoc, isLoading, scale, currentPage, scrollMode, pageDimensions,
                 nLoads, viewerVars, documentVars, legacyVars, probe, thumbVars>>

\* getDocument resolves: setPdfDoc(loadedPdf), setPagesToRender([1..n]),
\* await calculateDimensions().  calculateDimensions tests and reads the
\* pdfDoc of its closure (t.captured): without one it returns at once and
\* the load ends (setIsLoading(false)); otherwise it suspends at
\* getPage(1) of that document.
LegacyOpenResolved(t) ==
  /\ t.kind \in {"url", "file"} /\ t.phase = "open"
  /\ pdfDoc' = t.doc
  /\ pagesToRender' = PageList(NumPages(t.doc))
  /\ IF t.captured = 0
       THEN /\ loads' = loads \ {t}
            /\ settled' = settled \cup {Ended(t, "loaded", 0, 0)}
            /\ isLoading' = FALSE
       ELSE /\ loads' = (loads \ {t}) \cup {[t EXCEPT !.phase = "geometry", !.page = 1]}
            /\ UNCHANGED <<settled, isLoading>>
  /\ UNCHANGED <<scale, currentPage, scrollMode, pageDimensions, nLoads, viewerVars,
                 documentVars, isScrolling, releaseTimers, realignTimers,
                 relayoutScrolls, switchedFrom, scrollCmd, handler, probe, thumbVars>>
  /\ BindKeyListener

\* getDocument rejects: the catch logs, isLoading is cleared.
LegacyOpenRejected(t) ==
  /\ t.kind \in {"url", "file"} /\ t.phase = "open"
  /\ loads' = loads \ {t}
  /\ settled' = settled \cup {Ended(t, "openError", 0, 0)}
  /\ isLoading' = FALSE
  /\ UNCHANGED <<pdfDoc, scale, currentPage, scrollMode, pageDimensions, nLoads,
                 viewerVars, documentVars, legacyVars, probe, thumbVars>>

\* calculateDimensions: getPage(t.page) of the closure's document resolves;
\* after its last page setPageDimensions(dimensions), then the load ends.
LegacyGetPageResolved(t) ==
  /\ t.kind \in {"url", "file"} /\ t.phase = "geometry"
  /\ LET dimensions == Append(t.dims, PageViewport(t.captured, t.page)) IN
       IF t.page < NumPages(t.captured)
         THEN /\ loads' = (loads \ {t})
                            \cup {[t EXCEPT !.page = t.page + 1, !.dims = dimensions]}
              /\ UNCHANGED <<pageDimensions, settled, isLoading>>
         ELSE /\ loads' = loads \ {t}
              /\ pageDimensions' = dimensions
              /\ settled' = settled \cup {Ended(t, "loaded", 0, 0)}
              /\ isLoading' = FALSE
  /\ UNCHANGED <<pdfDoc, scale, currentPage, scrollMode, nLoads, viewerVars,
                 documentVars, legacyVars, probe, thumbVars>>

\* getPage rejects inside calculateDimensions: the catch logs, isLoading is
\* cleared.
LegacyGetPageRejected(t) ==
  /\ t.kind \in {"url", "file"} /\ t.phase = "geometry"
  /\ loads' = loads \ {t}
  /\ settled' = settled \cup {Ended(t, "readError", 0, 0)}
  /\ isLoading' = FALSE
  /\ UNCHANGED <<pdfDoc, scale, currentPage, scrollMode, pageDimensions, nLoads,
                 viewerVars, documentVars, legacyVars, probe, thumbVars>>

\* scrollToPage(pageNumber) as a function of the values its closure holds
\* (mode, dims); the container is read when it runs.  In single-page mode
\* it only sets the page.  Otherwise it sets the lock, computes the target
\* (throwing when the loop reads past dims: the lock stays, nothing else
\* runs), scrolls, sets the page and starts the 800 ms release timer.
scrollToPage(pageNumber, mode, dims) ==
  /\ handler' = "scrollToPage"
  /\ IF mode = "horizontal-single"
       THEN /\ currentPage' = pageNumber
            /\ UNCHANGED <<isScrolling, releaseTimers, scrollCmd>>
       ELSE IF ~HasContainer \/ Len(dims) = 0
         THEN UNCHANGED <<currentPage, isScrolling, releaseTimers, scrollCmd>>
         ELSE IF pageNumber - 1 > Len(dims)
           THEN /\ isScrolling' = TRUE
                /\ UNCHANGED <<currentPage, releaseTimers, scrollCmd>>
           ELSE /\ isScrolling' = TRUE
                /\ scrollCmd' = [axis |-> mode,
                                 target |-> OffsetFor(pageNumber, dims, scale, mode)]
                /\ currentPage' = pageNumber
                /\ releaseTimers' = releaseTimers + 1

\* What a navigation by the user leaves alone.
NavigationFrame ==
  /\ switchedFrom' = 0
  /\ UNCHANGED <<pdfDoc, isLoading, scale, scrollMode, pageDimensions, loads, settled,
                 nLoads, viewerVars, documentVars, pagesToRender, realignTimers,
                 relayoutScrolls, probe, thumbVars>>
  /\ BindKeyListener

\* The toolbar's page input (1 <= page <= totalPages) or a thumbnail calls
\* scrollToPage(page).
SelectPage(page) ==
  /\ CanRequestPage(page)
  /\ releaseTimers < MaxNavs
  /\ scrollToPage(page, scrollMode, pageDimensions)
  /\ NavigationFrame

goToPrevPage ==
  /\ currentPage > 1
  /\ releaseTimers < MaxNavs
  /\ scrollToPage(currentPage - 1, scrollMode, pageDimensions)
  /\ NavigationFrame

goToNextPage ==
  /\ pdfDoc # 0 /\ currentPage < NumPages(pdfDoc)
  /\ releaseTimers < MaxNavs
  /\ scrollToPage(currentPage + 1, scrollMode, pageDimensions)
  /\ NavigationFrame

\* handleKeyDown of the bound listener: ArrowLeft / PageUp call its
\* goToPrevPage, ArrowRight / PageDown its goToNextPage.  pdfDoc and
\* currentPage are those of the current render (the effect's dependencies);
\* scrollToPage is the one of the render that bound the listener.
handleKeyDown(key) ==
  /\ pdfDoc # 0
  /\ releaseTimers < MaxNavs
  /\ IF key = "ArrowLeft" THEN currentPage > 1 ELSE currentPage < NumPages(pdfDoc)
  /\ scrollToPage(IF key = "ArrowLeft" THEN currentPage - 1 ELSE currentPage + 1,
                  keyClosure.mode, keyClosure.dims)
  /\ NavigationFrame

\* setTimeout(() => setIsScrolling(false), 800) fires.  The timer of an
\* earlier scrollToPage call is not cleared by a later call.
ReleaseTimerFires ==
  /\ releaseTimers > 0
  /\ releaseTimers' = releaseTimers - 1
  /\ isScrolling' = FALSE
  /\ UNCHANGED <<pdfDoc, isLoading, scale, currentPage, scrollMode, pageDimensions,
                 loads, settled, nLoads, viewerVars, documentVars, pagesToRender,
                 realignTimers, relayoutScrolls, switchedFrom, keyClosure, scrollCmd,
                 handler, probe, thumbVars>>

\* A scroll handler that re-aligns the container on the page it found.
handleScrollRealigning(scrollOffset, viewportExtent) ==
  IF ~HasContainer \/ Len(pageDimensions) = 0 \/ isScrolling
       \/ scrollMode = "horizontal-single"
    THEN UNCHANGED <<currentPage, isScrolling, releaseTimers, scrollCmd, handler>>
    ELSE scrollToPage(PageAt(scrollOffset, viewportExtent, pageDimensions, scale, scrollMode),
                      scrollMode, pageDimensions)

\* handleScroll with the container at scrollOffset along the axis of the
\* mode: inert without a container or geometry, under the lock and in
\* single-page mode; otherwise currentPage becomes the page found.
handleScroll(scrollOffset, viewportExtent) ==
  IF ~HasContainer \/ Len(pageDimensions) = 0 \/ isScrolling
       \/ scrollMode = "horizontal-single"
    THEN UNCHANGED <<currentPage, isScrolling, releaseTimers, scrollCmd, handler>>
    ELSE /\ currentPage' = PageAt(scrollOffset, viewportExtent, pageDimensions, scale,
                                  scrollMode)
         /\ handler' = "handleScroll"
         /\ UNCHANGED <<isScrolling, releaseTimers, scrollCmd>>

ScrollOffsets ==
  IF Len(pageDimensions) = 0 \/ scrollMode = "horizontal-single" THEN {0}
  ELSE ProbeOffsets(pageDimensions, scale, scrollMode)

\* A scroll event of the user's (wheel, touch, scroll bar) or of a smooth
\* scroll in progress.
ScrollEvent ==
  /\ HasContainer
  /\ \E off \in ScrollOffsets, ext \in ViewportExtents : handleScroll(off, ext)
  /\ switchedFrom' = 0
  /\ UNCHANGED <<pdfDoc, isLoading, scale, scrollMode, pageDimensions, loads, settled,
                 nLoads, viewerVars, documentVars, pagesToRender, realignTimers,
                 relayoutScrolls, probe, thumbVars>>
  /\ BindKeyListener

\* toggleScrollMode: setScrollMode(next) and
\* setTimeout(() => scrollToPage(currentPage), 100); the timer keeps the
\* scrollToPage and the currentPage of the render that handled the click.
\* The container is laid out anew along the other axis, from its start, and
\* may report that with a scroll event.
toggleScrollModeLegacy ==
  /\ Len(realignTimers) < MaxToggles
  /\ \E i \in 1 .. 3 :
       /\ Modes[i] = scrollMode
       /\ scrollMode' = Modes[(i % 3) + 1]
  /\ realignTimers' = Append(realignTimers,
                             [mode |-> scrollMode, dims |-> pageDimensions,
                              page |-> currentPage])
  /\ relayoutScrolls' \in {0, 1}
  /\ switchedFrom' = IF realignTimers # <<>> THEN switchedFrom
                     ELSE IF releaseTimers = 0 /\ loads = {} THEN currentPage
                     ELSE 0
  /\ UNCHANGED <<pdfDoc, isLoading, scale, currentPage, pageDimensions, loads, settled,
                 nLoads, viewerVars, documentVars, pagesToRender, isScrolling,
                 releaseTimers, keyClosure, scrollCmd, handler, probe, thumbVars>>

\* The 100 ms timer of the oldest pending toggle fires.
RealignTimerFires ==
  /\ realignTimers # <<>>
  /\ releaseTimers < MaxNavs
  /\ LET c == Head(realignTimers) IN scrollToPage(c.page, c.mode, c.dims)
  /\ realignTimers' = Tail(realignTimers)
  /\ UNCHANGED <<pdfDoc, isLoading, scale, scrollMode, pageDimensions, loads, settled,
                 nLoads, viewerVars, documentVars, pagesToRender, relayoutScrolls,
                 switchedFrom, probe, thumbVars>>
  /\ BindKeyListener

\* The scroll event of the re-layout arrives: the container is at the
\* start of its new axis.
RelayoutScroll ==
  /\ relayoutScrolls > 0
  /\ relayoutScrolls' = relayoutScrolls - 1
  /\ \E ext \in ViewportExtents : handleScroll(0, ext)
  /\ UNCHANGED <<pdfDoc, isLoading, scale, scrollMode, pageDimensions, loads, settled,
                 nLoads, viewerVars, documentVars, pagesToRender, realignTimers,
                 switchedFrom, probe, thumbVars>>
  /\ BindKeyListener

NextLegacy ==
  \/ \E s \in Docs \cup {0} : SetPdfUrl(s)
  \/ \E d \in Files : handleFileSelected(d)
  \/ \E t \in loads : ReaderLoaded(t)
  \/ \E t \in loads : ReaderFailed(t)
  \/ \E t \in loads : LegacyOpenResolved(t)
  \/ \E t \in loads : LegacyOpenRejected(t)
  \/ \E t \in loads : LegacyGetPageResolved(t)
  \/ \E t \in loads : LegacyGetPageRejected(t)
  \/ \E page \in 1 .. NumPages(NumFiles) : SelectPage(page)
  \/ goToPrevPage
  \/ goToNextPage
  \/ \E key \in {"ArrowLeft", "ArrowRight"} : handleKeyDown(key)
  \/ ReleaseTimerFires
  \/ ScrollEvent
  \/ toggleScrollModeLegacy
  \/ RealignTimerFires
  \/ RelayoutScroll

SpecLegacy == InitLegacy /\ [][NextLegacy]_vars

\* C2: in a continuous mode, while the window of a scrollToPage call is
\* open (its 800 ms have not passed), no scroll event changes currentPage,
\* also when the windows of several calls overlap.
C2_ScrollInertDuringNavigation ==
  [][(ScrollEvent /\ releaseTimers > 0) => currentPage' = currentPage]_vars

\* C3: a layout-mode switch leaves currentPage unchanged once it has
\* settled (its timers have fired, the re-layout's scroll event has been
\* handled), for every pair of modes.
C3_SwitchKeepsCurrentPage ==
  (switchedFrom # 0 /\ realignTimers = <<>> /\ relayoutScrolls = 0 /\ releaseTimers = 0)
    => currentPage = switchedFrom

\* C8: when a load completes, pageDimensions is the geometry of the
\* document just loaded: one entry per page, not empty, not another
\* document's.
C8_GeometryOfLoadedDocument ==
  [][\A l \in settled' \ settled :
       l.outcome = "loaded" => pageDimensions' = Geometry(l.doc)]_vars

\* C18: after a switch into a continuous mode (here: when the deferred
\* scrollToPage of the only switch in progress runs, the document being
\* shown with its geometry and no load, navigation or scroll of the user's
\* having overlapped the switch), a scroll command is issued whose target
\* is offsetFor(currentPage) along the axis of the new mode, and the lock
\* is taken; this for every source mode, single-page mode included.
C18_SwitchRealignsAlongNewAxis ==
  [][(RealignTimerFires /\ Len(realignTimers) = 1 /\ switchedFrom # 0
        /\ HasContainer /\ pageDimensions # <<>> /\ scrollMode \in ContinuousModes)
       => /\ releaseTimers' = releaseTimers + 1
          /\ isScrolling'
          /\ scrollCmd' = [axis |-> scrollMode,
                           target |-> OffsetFor(currentPage', pageDimensions, scale,
                                                scrollMode)]]_vars

\* The user's explicit navigation: page input, thumbnail, prev / next, keyboard.
ExplicitNavigation ==
  \/ \E page \in 1 .. NumPages(NumFiles) : SelectPage(page)
  \/ goToPrevPage
  \/ goToNextPage
  \/ \E key \in {"ArrowLeft", "ArrowRight"} : handleKeyDown(key)

\* C19: in single-page mode no scroll event changes currentPage;
\* currentPage changes only through explicit navigation (a load apart);
\* and explicit navigation issues no scroll command and does not take
\* the lock.
C19_SinglePageModeInert ==
  [][scrollMode = "horizontal-single"
       => /\ (ScrollEvent \/ RelayoutScroll) => currentPage' = currentPage
          /\ (currentPage' # currentPage /\ loads' = loads) => ExplicitNavigation
          /\ ExplicitNavigation => /\ scrollCmd' = scrollCmd
                                   /\ isScrolling' = isScrolling
                                   /\ releaseTimers' = releaseTimers]_vars

C21_NoDocumentNoOp ==
  [][(pdfDoc = 0 /\ (ExplicitNavigation \/ toggleScrollModeLegacy))
       => UNCHANGED <<currentPage, scale, scrollMode, isScrolling>>]_vars

\* C23: the lock is always released in the end.  Timers fire within their
\* delay, so when no further request is made the viewer comes to a state
\* with no timer pending; there the lock must be free (a lock held in
\* such a state is held until the next request).
C23_LockFreeWhenNoTimerPending ==
  (releaseTimers = 0 /\ realignTimers = <<>>) => ~isScrolling

\* C28: every load attempt clears the loading flag in the end, whatever
\* its outcome (open failed, geometry read failed, file read failed): a
\* load task ends when its last promise or reader event has settled, so
\* once no load task is left isLoading must be false; and isLoading is not
\* false while a load task is still in flight.
C28_LoadingFlagFollowsLoads ==
  /\ loads = {} => ~isLoading
  /\ ~isLoading => loads = {}

-----------------------------------------------------------------------------
(* SpecTracker, continued: the layout sums, the render effect's page list  *)
(* and the fit scales, applied to the drawn inputs.                        *)

\* PDFDocument.getContainerStyle's loop from index i on: the extent of the
\* scroll content along the axis of a continuous mode
\*   total += dim * scale + (index < pageDimensions.length - 1 ? pageGap : 0)
RECURSIVE TotalExtentFrom(_, _, _, _)
TotalExtentFrom(i, dims, sc, mode) ==
  IF i > Len(dims) THEN 0
  ELSE PageExtent(dims[i], mode) * sc
         + (IF i - 1 < Len(dims) - 1 THEN PAGE_GAP * 100 ELSE 0)
         + TotalExtentFrom(i + 1, dims, sc, mode)

\* A slip that adds the gap after every page, the last one included.
TotalExtentGapAfterEach(dims, sc, mode) ==
  TotalExtentFrom(1, dims, sc, mode) + PAGE_GAP * 100

TotalExtent(dims, sc, mode) == TotalExtentFrom(1, dims, sc, mode)

\* scrollToPage's target for the probed page and getContainerStyle's extent.
ComputeLayout ==
  /\ probe.stage = "input"
  /\ probe' = [probe EXCEPT !.stage = "layout",
                            !.offset = OffsetFor(probe.page, probe.dims, probe.scale, probe.mode),
                            !.total = TotalExtent(probe.dims, probe.scale, probe.mode)]
  /\ UNCHANGED <<sharedVars, viewerVars, documentVars, legacyVars, thumbVars>>

\* The render effect runs in a continuous mode with the container at some
\* offset: renderPage is called for every page of its list.
RunRenderEffect ==
  /\ probe.stage = "input"
  /\ \E off \in ProbeOffsets(probe.dims, probe.scale, probe.mode) :
       probe' = [probe EXCEPT !.stage = "rendered",
                              !.offset = off,
                              !.requested = EffectPages(probe.mode, probe.page, Len(probe.dims))]
  /\ UNCHANGED <<sharedVars, viewerVars, documentVars, legacyVars, thumbVars>>

(* Scales as exact fractions num / den; the lengths of the fit            *)
(* computation are in whole pixels.                                        *)
Frac(n, d) == [num |-> n, den |-> d]
FracLess(a, b) == a.num * b.den < b.num * a.den
FracEq(a, b) == a.num * b.den = b.num * a.den
FracMin(a, b) == IF FracLess(b, a) THEN b ELSE a
FracMax(a, b) == IF FracLess(a, b) THEN b ELSE a

\* The standalone PDFViewer's minZoom = 0.5 and maxZoom = 3.0.
legacyMinZoom == Frac(1, 2)
legacyMaxZoom == Frac(3, 1)

\* Math.max(x, 1) on a length.
AtLeastOnePx(extent) == IF extent > 1 THEN extent ELSE 1

\* calculateFitScale for a page that has geometry, with padding = 48:
\*   containerWidth = Math.max(container.clientWidth - padding, 1), ...
calculateFitScale(fitMode, page, viewport) ==
  LET padding == 48
      containerWidth == AtLeastOnePx(viewport.width - padding)
      containerHeight == AtLeastOnePx(viewport.height - padding)
      widthScale == Frac(containerWidth, page.width)
      heightScale == Frac(containerHeight, page.height)
  IN CASE fitMode = "width" -> widthScale
       [] fitMode = "fit" -> FracMin(widthScale, heightScale)
       [] OTHER -> Frac(1, 1)

\* The widths and heights the container reports: 0 (not laid out), 48 px
\* (the padding), 300, 1000 and 1200 px.
ViewportSizes == {0, 48, 300, 1000, 1200}

FitPolicies == {"width", "fit"}

\* The standalone viewer: handleZoom("width" | "fit") sets fitMode and the
\* fit-mode effect does
\*   setScale(Math.min(Math.max(calculateFitScale(), minZoom), maxZoom)).
LegacyFit ==
  /\ probe.stage = "input"
  /\ \E fitMode \in FitPolicies, w \in ViewportSizes, h \in ViewportSizes :
       LET viewport == [width |-> w, height |-> h]
           fitScale == calculateFitScale(fitMode, probe.dims[probe.page], viewport)
       IN probe' = [probe EXCEPT !.stage = "fitLegacy",
                                 !.policy = fitMode,
                                 !.viewport = viewport,
                                 !.result = FracMin(FracMax(fitScale, legacyMinZoom),
                                                    legacyMaxZoom)]
  /\ UNCHANGED <<sharedVars, viewerVars, documentVars, legacyVars, thumbVars>>

\* The exported viewer: handleZoom("width" | "fit") does setScale(newScale)
\* whatever the container measures.
ExportedFit ==
  /\ probe.stage = "input"
  /\ \E type \in FitPolicies, w \in ViewportSizes, h \in ViewportSizes :
       probe' = [probe EXCEPT !.stage = "fitExported",
                              !.policy = type,
                              !.viewport = [width |-> w, height |-> h],
                              !.result = Frac(newScale(type), 100)]
  /\ UNCHANGED <<sharedVars, viewerVars, documentVars, legacyVars, thumbVars>>

\* The scale the fit-mode effect sets for the page calculateFitScale reads,
\* pageDimensions[currentPage - 1].
fitEffectScale(fitMode, page, viewport) ==
  FracMin(FracMax(calculateFitScale(fitMode, page, viewport), legacyMinZoom), legacyMaxZoom)

\* The standalone viewer in a continuous mode with fit-width or fit active
\* on probe.page: the scale in force is the one the effect set for that
\* page (taken here when it is a whole percentage).  A scroll event is
\* handled: handleScroll sets currentPage to the page found; currentPage
\* is a dependency of calculateFitScale, which is a dependency of the
\* fit-mode effect, so the effect runs again when the page has changed.
ScrollUnderFit ==
  /\ probe.stage = "input"
  /\ \E fitMode \in FitPolicies, w \in ViewportSizes, h \in ViewportSizes :
       LET viewport == [width |-> w, height |-> h]
           inForce == fitEffectScale(fitMode, probe.dims[probe.page], viewport)
           sc == (inForce.num * 100) \div inForce.den
           ext == (IF probe.mode = "vertical" THEN h ELSE w) * 100
       IN /\ (inForce.num * 100) % inForce.den = 0
          /\ \E off \in ProbeOffsets(probe.dims, sc, probe.mode) :
               LET foundPage == PageAt(off, ext, probe.dims, sc, probe.mode) IN
                 probe' = [probe EXCEPT
                             !.stage = "scrollFit",
                             !.policy = fitMode,
                             !.viewport = viewport,
                             !.scale = sc,
                             !.extent = ext,
                             !.offset = off,
                             !.found = foundPage,
                             !.result = IF foundPage = probe.page THEN inForce
                                        ELSE fitEffectScale(fitMode, probe.dims[foundPage],
                                                            viewport)]
  /\ UNCHANGED <<sharedVars, viewerVars, documentVars, legacyVars, thumbVars>>

NextTracker ==
  \/ NavigateThenObserve
  \/ ObserveScroll
  \/ ComputeLayout
  \/ RunRenderEffect
  \/ LegacyFit
  \/ ExportedFit
  \/ ScrollUnderFit

SpecTracker == InitTracker /\ [][NextTracker]_vars

\* The rule of C15: the scaled extents of pages 1 .. k, summed.
RECURSIVE ScaledSum(_, _, _, _)
ScaledSum(k, dims, sc, mode) ==
  IF k = 0 THEN 0
  ELSE ScaledSum(k - 1, dims, sc, mode) + PageExtent(dims[k], mode) * sc

\* C15: in a continuous mode the offset of page k is the sum over pages
\* 1 .. k-1 of (extent * scale + gap), so page 1 is at 0, and the content
\* extent is the sum of the scaled extents plus (pageCount - 1) gaps;
\* scrollToPage's target and getContainerStyle's extent follow this rule.
C15_OffsetsFollowGapRule ==
  probe.stage = "layout" =>
    /\ probe.offset = ScaledSum(probe.page - 1, probe.dims, probe.scale, probe.mode)
                        + (probe.page - 1) * PAGE_GAP * 100
    /\ (probe.page = 1 => probe.offset = 0)
    /\ probe.total = ScaledSum(Len(probe.dims), probe.dims, probe.scale, probe.mode)
                       + (Len(probe.dims) - 1) * PAGE_GAP * 100

\* C15 witness: pages of 600, 800 and 600 px stacked vertically at scale 1:
\* page 3 at 1480 px, content extent 2080 px.
C15_Witness ==
  /\ probe.stage = "layout" /\ probe.mode = "vertical" /\ probe.scale = 100
  /\ probe.page = 3
  /\ probe.offset = 148000 /\ probe.total = 208000

\* The pages whose box meets the viewport extended by the prefetch margin
\* of one viewport extent on either side.
PagesInWindow(dims, sc, mode, off, ext) ==
  {k \in 1 .. Len(dims) :
     LET start == OffsetFor(k, dims, sc, mode)
         end == start + PageExtent(dims[k], mode) * sc
     IN end >= off - ext /\ start <= off + ext + ext}

\* C13: in a continuous mode the pages rasterized are exactly those whose
\* box meets [viewportOffset - margin, viewportOffset + viewportExtent +
\* margin]; a page wholly outside gets no raster job.
C13_ContinuousRasterSet ==
  probe.stage = "rendered"
    => probe.requested = PagesInWindow(probe.dims, probe.scale, probe.mode,
                                       probe.offset, probe.extent)

\* The Scale Resolver of C16 for a viewport larger than the padding of
\* 48 px: (viewportWidth - padding) / page.width for fit-width, the smaller
\* of the width and height quotients for fit-page, clamped to [lo, hi].
ResolveFit(policy, page, viewport, lo, hi) ==
  LET widthScale == Frac(viewport.width - 48, page.width)
      heightScale == Frac(viewport.height - 48, page.height)
      fitScale == IF policy = "width" THEN widthScale
                  ELSE FracMin(widthScale, heightScale)
  IN FracMin(FracMax(fitScale, lo), hi)

\* The viewport has no extent the fit policy could use.
ZeroExtent(policy, viewport) ==
  \/ viewport.width <= 48
  \/ policy = "fit" /\ viewport.height <= 48

\* C16: in every viewer that offers them, fit-width sets scale to
\* clamp((viewportWidth - padding) / page.width) and fit-page to
\* clamp(min(widthScale, heightScale)), for the current viewport.
C16_FitScaleFromViewport ==
  /\ (probe.stage = "fitLegacy" /\ ~ZeroExtent(probe.policy, probe.viewport))
       => FracEq(probe.result,
                 ResolveFit(probe.policy, probe.dims[probe.page], probe.viewport,
                            legacyMinZoom, legacyMaxZoom))
  /\ (probe.stage = "fitExported" /\ ~ZeroExtent(probe.policy, probe.viewport))
       => FracEq(probe.result,
                 ResolveFit(probe.policy, probe.dims[probe.page], probe.viewport,
                            Frac(minZoom, 100), Frac(maxZoom, 100)))

\* C17: with a viewport of zero extent (not measured, or not larger than
\* the padding) a fit policy resolves to scale 1.0; the resolved scale is
\* never 0, negative or non-finite.
C17_ZeroViewportFallsBackToOne ==
  probe.stage \in {"fitLegacy", "fitExported"} =>
    /\ probe.result.num > 0 /\ probe.result.den > 0
    /\ ZeroExtent(probe.policy, probe.viewport) => FracEq(probe.result, Frac(1, 1))

\* C25: in a continuous mode a scroll-driven change of currentPage leaves
\* the scale unchanged, also while fit-width or fit is active and the
\* pages differ in size.
C25_ScrollKeepsScaleUnderFit ==
  (probe.stage = "scrollFit" /\ probe.found # probe.page)
    => FracEq(probe.result, Frac(probe.scale, 100))

-----------------------------------------------------------------------------
(* SpecZoom: the exported PDFViewer's scale under every configuration of   *)
(* Configs.  handleZoom is reachable from the toolbar with or without a    *)
(* document; the actions that load and navigate do not write scale.        *)

InitZoom ==
  /\ config \in Configs
  /\ InitViewerState /\ DocumentIdle /\ LegacyIdle /\ probe = NoProbe /\ ThumbnailsIdle

Zoom(type) == handleZoom(type) /\ UNCHANGED documentVars

NextZoom ==
  \/ \E type \in ZoomTypes : Zoom(type)
  \/ toggleScrollMode
  \/ ViewportChange

SpecZoom == InitZoom /\ [][NextZoom]_vars

\* C11: minZoom <= scale <= maxZoom in every reachable state, from
\* defaultZoom through any sequence of zoom operations.
C11_ScaleWithinZoomRange == minZoom <= scale /\ scale <= maxZoom

\* The cycle of layout modes: vertical -> horizontal -> single-page -> vertical.
Successor(mode) ==
  CASE mode = "vertical" -> "horizontal"
    [] mode = "horizontal" -> "horizontal-single"
    [] mode = "horizontal-single" -> "vertical"

\* C29: each toggle moves the layout mode to its successor in the cycle
\* vertical -> horizontal -> single-page -> vertical; off mobile, three
\* consecutive toggles (nextMode applied three times) return to the mode
\* they started from; on a mobile viewport the mode is vertical.
C29_ToggleCycles ==
  /\ toggledFrom # "none" => scrollMode = Successor(toggledFrom)
  /\ ~isMobile => nextMode(nextMode(nextMode(scrollMode))) = scrollMode
  /\ isMobile => scrollMode = "vertical"

\* A toggle has just moved horizontal to single-page, off mobile.
C29_Witness ==
  /\ toggledFrom = "horizontal" /\ scrollMode = "horizontal-single" /\ ~isMobile
  /\ scale # defaultZoom

-----------------------------------------------------------------------------
(* SpecThumbnails: the ThumbnailsPanel of the exported viewer's sidebar    *)
(* (src/unnamed/part_000), mounted with a loaded document pdfDoc.  A       *)
(* thumbnail entry is modelled by its pageNum; thumbLoads counts, per      *)
(* page, the loadThumbnail calls that passed the guard and have not        *)
(* settled.                                                                *)

\* Math.min(3, pdfDoc.numPages): the pages the preload effect asks for.
PreloadCount == 3
pagesToPreload == IF NumPages(pdfDoc) < PreloadCount THEN NumPages(pdfDoc) ELSE PreloadCount

\* thumbnails.some(t => t.pageNum === pageNum)
HasThumbnail(list, pageNum) == \E i \in 1 .. Len(list) : list[i].pageNum = pageNum

\* The updater passed to setThumbnails: replace the entry at findIndex or
\* push a new one, then sort by pageNum.
setThumbnails(prev, pageNum) ==
  LET entry == [pageNum |-> pageNum]
      newThumbnails ==
        IF HasThumbnail(prev, pageNum)
          THEN LET existingIndex == CHOOSE i \in 1 .. Len(prev) :
                                      /\ prev[i].pageNum = pageNum
                                      /\ \A k \in 1 .. i - 1 : prev[k].pageNum # pageNum
               IN  [prev EXCEPT ![existingIndex] = entry]
          ELSE Append(prev, entry)
  IN  SortSeq(newThumbnails, LAMBDA a, b : a.pageNum < b.pageNum)

\* The calls of loadThumbnail(pageNum) made by the effects that run after a
\* commit, and what they do.  list, visible and loading are the state of
\* the render being committed; every call of one commit goes through the
\* loadThumbnail of that render, whose guard reads that render's
\* loadingThumbnails.  The set updates queued by the calls render again
\* with every started page in the loading set, and the effects of that
\* render start nothing.
\*   runVisible: the load-visible effect runs ([visiblePages, thumbnails, loadThumbnail])
\*   runPreload: the preload effect runs ([pdfDoc, thumbnails, loadThumbnail])
LoadCalls(pageNum, runVisible, runPreload, list, visible) ==
  (IF runVisible /\ pageNum \in visible /\ ~HasThumbnail(list, pageNum) THEN 1 ELSE 0)
    + (IF runPreload /\ pageNum <= pagesToPreload /\ ~HasThumbnail(list, pageNum) THEN 1 ELSE 0)

RunLoadEffects(runVisible, runPreload, list, visible, loading, inFlight) ==
  LET started(pageNum) ==
        IF pageNum \in loading
          THEN 0
          ELSE LoadCalls(pageNum, runVisible, runPreload, list, visible)
  IN  /\ thumbLoads' = [pageNum \in DOMAIN inFlight |-> inFlight[pageNum] + started(pageNum)]
      /\ loadingThumbnails' = loading \cup {pageNum \in DOMAIN inFlight : started(pageNum) > 0}

\* The panel after its first commit: no thumbnail, nothing visible yet (the
\* observer reports asynchronously), and the preload effect has called
\* loadThumbnail for the first pages.
InitThumbnails ==
  /\ pdfDoc \in Files
  /\ isLoading = FALSE /\ scale = 100 /\ currentPage = 1
  /\ scrollMode = "vertical" /\ pageDimensions = Geometry(pdfDoc)
  /\ loads = {} /\ settled = {} /\ nLoads = 0
  /\ ViewerIdle /\ DocumentIdle /\ LegacyIdle /\ probe = NoProbe
  /\ thumbnails = <<>>
  /\ visiblePages = {}
  /\ loadingThumbnails = 1 .. pagesToPreload
  /\ thumbLoads = [pageNum \in 1 .. NumPages(pdfDoc) |-> IF pageNum <= pagesToPreload THEN 1 ELSE 0]
  /\ nThumbFailures = 0

thumbnailFrame == UNCHANGED <<sharedVars, viewerVars, documentVars, legacyVars, probe>>

\* The intersection observer's callback: setVisiblePages(newVisible), a new
\* Set whatever its members, then the load-visible effect.
ObserveVisibility(newVisible) ==
  /\ visiblePages' = newVisible
  /\ RunLoadEffects(TRUE, FALSE, thumbnails, newVisible, loadingThumbnails, thumbLoads)
  /\ UNCHANGED <<thumbnails, nThumbFailures>>
  /\ thumbnailFrame

\* One loadThumbnail(pageNum) resolves: setThumbnails, then the finally's
\* delete from the loading set; both effects run on the new thumbnails and
\* the new loadThumbnail.
ThumbnailLoaded(pageNum) ==
  /\ thumbLoads[pageNum] > 0
  /\ thumbnails' = setThumbnails(thumbnails, pageNum)
  /\ RunLoadEffects(TRUE, TRUE, thumbnails', visiblePages, loadingThumbnails \ {pageNum},
                    [thumbLoads EXCEPT ![pageNum] = @ - 1])
  /\ UNCHANGED <<visiblePages, nThumbFailures>>
  /\ thumbnailFrame

\* One loadThumbnail(pageNum) ends without a thumbnail: getPage or render
\* rejects (the catch logs it) or getContext('2d') gives null (return); the
\* finally deletes the page from the loading set, loadThumbnail changes
\* with it and both effects run again.
ThumbnailFailed(pageNum) ==
  /\ thumbLoads[pageNum] > 0
  /\ nThumbFailures < MaxThumbFailures
  /\ nThumbFailures' = nThumbFailures + 1
  /\ RunLoadEffects(TRUE, TRUE, thumbnails, visiblePages, loadingThumbnails \ {pageNum},
                    [thumbLoads EXCEPT ![pageNum] = @ - 1])
  /\ UNCHANGED <<thumbnails, visiblePages>>
  /\ thumbnailFrame

NextThumbnails ==
  \/ \E newVisible \in SUBSET (1 .. NumPages(pdfDoc)) : ObserveVisibility(newVisible)
  \/ \E pageNum \in DOMAIN thumbLoads : ThumbnailLoaded(pageNum)
  \/ \E pageNum \in DOMAIN thumbLoads : ThumbnailFailed(pageNum)

SpecThumbnails == InitThumbnails /\ [][NextThumbnails]_vars

\* C30: in the thumbnails panel at most one load is in flight per page
\* under any interleaving of the visibility trigger and the preload
\* trigger; the list holds at most one entry per page, sorted ascending;
\* no page stays in the loading set once its load has settled.
C30_ThumbnailLoads ==
  /\ \A pageNum \in DOMAIN thumbLoads : thumbLoads[pageNum] <= 1
  /\ \A i, k \in 1 .. Len(thumbnails) : i < k => thumbnails[i].pageNum < thumbnails[k].pageNum
  /\ \A pageNum \in loadingThumbnails : thumbLoads[pageNum] > 0

====
